---- MODULE Spec2Model ----
(***************************************************************************)
(* Model of the tracking-wheel odometry of kernelvex                       *)
(* (src/src/odom/wheel.rs): TrackingWheel, TrackingRig::new, the           *)
(* background task TrackingRig::task and the read accessors.               *)
(*                                                                         *)
(* Numbers.  The code computes in f64.  The model computes in fixed point: *)
(*   lengths in millimetres, angles in milliradians, time in milliseconds, *)
(*   sines and cosines scaled by Scale, velocities in mm/s and mrad/s.     *)
(* Every f64 division is FDiv (round to nearest, odd-symmetric).           *)
(***************************************************************************)
EXTENDS Integers, Sequences, FiniteSets, TLC

(***************************************************************************)
(* Fixed-point arithmetic                                                  *)
(***************************************************************************)
\* resolution of the fixed point: 1/Scale
Scale == 10 ^ 3

\* std::f64::consts::PI in milliradians; QAngle::TAU is 2 * PI
PI == 3142

TAU == 2 * PI

HalfPI == PI \div 2

Abs(a) == IF a < 0 THEN -a ELSE a

Sign(a) == IF a < 0 THEN -1 ELSE IF a > 0 THEN 1 ELSE 0

\* f64 division: rounds to nearest, -a / b = -(a / b)
FDiv(a, b) == Sign(a) * Sign(b) * ((2 * Abs(a) + Abs(b)) \div (2 * Abs(b)))

\* libm::remainder(x, y), y > 0: x - n*y with n the integer nearest to x/y,
\* a tie taking the even n
IeeeRemainder(x, y) ==
    LET q == x \div y
        r == x % y
    IN  IF 2 * r < y THEN r
        ELSE IF 2 * r > y THEN r - y
        ELSE IF q % 2 = 0 THEN r ELSE r - y

\* libm::fmod in the place of libm::remainder: the quotient truncated
Remainder_Fmod(a, other) == a - other * (Sign(a) * (Abs(a) \div other))

\* QAngle::remainder
Remainder(a, other) == IeeeRemainder(a, other)

\* Taylor kernels, argument in [0, PI/4] milliradians, result scaled by Scale
SinKernel(x) ==
    LET x2 == FDiv(x * x, Scale)
        t3 == Scale - FDiv(x2, 42)
        t2 == Scale - FDiv(x2 * t3, 20 * Scale)
        t1 == Scale - FDiv(x2 * t2, 6 * Scale)
    IN  FDiv(x * t1, Scale)

CosKernel(x) ==
    LET x2 == FDiv(x * x, Scale)
        t3 == Scale - FDiv(x2, 30)
        t2 == Scale - FDiv(x2 * t3, 12 * Scale)
        t1 == Scale - FDiv(x2 * t2, 2 * Scale)
    IN  t1

\* first quadrant, x in [0, PI/2]
SinQ(x) == IF 2 * x <= HalfPI THEN SinKernel(x) ELSE CosKernel(HalfPI - x)

CosQ(x) == IF 2 * x <= HalfPI THEN CosKernel(x) ELSE SinKernel(HalfPI - x)

\* libm::sin, libm::cos of an angle in milliradians, scaled by Scale
Sin(a) ==
    LET r == IeeeRemainder(a, TAU)
        m == Abs(r)
    IN  Sign(r) * (IF m <= HalfPI THEN SinQ(m) ELSE SinQ(PI - m))

Cos(a) ==
    LET m == Abs(IeeeRemainder(a, TAU))
    IN  IF m <= HalfPI THEN CosQ(m) ELSE -CosQ(PI - m)

\* QAngle::from_degrees / f64::to_radians
FromDegrees(deg) == FDiv(deg * PI, 180)

\* QAngle::as_degrees
AsDegrees(a) == FDiv(a * 180, PI)

\* QAngle::from_turns, the encoder position counted in 1/TicksPerTurn turns
TicksPerTurn == 360

FromTurns(ticks) == FDiv(ticks * 2 * PI, TicksPerTurn)

RECURSIVE SumSeq(_)
SumSeq(s) == IF s = <<>> THEN 0 ELSE Head(s) + SumSeq(Tail(s))


Mean(s) == FDiv(SumSeq(s), Len(s))

\* Option<T>
None == [some |-> FALSE, val |-> 0]

Some(v) == [some |-> TRUE, val |-> v]

NoIndices == [some |-> FALSE, val |-> <<0, 0>>]

(***************************************************************************)
(* TrackingWheel                                                           *)
(***************************************************************************)
\* OmniWheel::size of OmniWheel::Omni275, 2.75 in, in millimetres
Omni275 == 70

\* wheel built by TrackingWheel::new(encoder, wheel, dist, ratio)
TrackingWheel(dist, size, ratio) ==
    [dist    |-> dist,
     size    |-> size,
     total   |-> 0,
     gearing |-> IF ratio.some THEN ratio.val ELSE 1]

\* TrackingWheel::offset
Offset(w) == w.dist

\* the value TrackingWheel::distance computes from the encoder position
\* (encoder ticks, TicksPerTurn per turn), when the read succeeds
Distance(w, position) ==
    LET circumference == FDiv(w.size * PI, Scale)
        rotations     == FromTurns(position)
    IN  FDiv(FDiv(FDiv(circumference * PI, Scale) * rotations, Scale), w.gearing)

\* TrackingWheel::distance also stores the value in self.total
AfterDistance(w, position) == [w EXCEPT !.total = Distance(w, position)]

\* TrackingWheel::delta: the value returned and the wheel afterwards
Delta(w, position) ==
    LET previous == w.total
        current  == Distance(w, position)
    IN  [ret |-> current - previous, wheel |-> AfterDistance(w, position)]

\* TrackingWheel::reset: self.total = Default::default(); the result of
\* encoder.reset_position() is dropped, ok tells whether it was Ok; gives
\* the wheel and the position of the encoder afterwards
Reset(w, position, ok) ==
    [wheel |-> [w EXCEPT !.total = 0], position |-> IF ok THEN 0 ELSE position]

(***************************************************************************)
(* TrackingWheel of omniwheel.rs, the implementation of trait Tracking     *)
(***************************************************************************)
\* wheel built by omniwheel::TrackingWheel::new(encoder, wheel, dist, gearing)
OmniwheelTrackingWheel(dist, size, gearing) ==
    [dist |-> dist, size |-> size, total |-> 0, gearing |-> gearing, reversed |-> FALSE]

\* TrackingWheel::set_reversed
SetReversed(w, reversed) == [w EXCEPT !.reversed = reversed]

\* the distance Tracking::distance and Tracking::delta compute from
\* encoder.rotations(), given as the encoder position in ticks
OmniwheelDistance(w, position) ==
    LET circumference == FDiv(w.size * PI, Scale)
        gearing       == IF w.gearing.some THEN w.gearing.val ELSE 1
        distance      == FDiv(circumference * gearing * FromTurns(position), TAU)
    IN  IF w.reversed THEN -distance ELSE distance

\* Tracking::distance stores the value in self.total
OmniwheelAfterDistance(w, position) ==
    [w EXCEPT !.total = OmniwheelDistance(w, position)]

\* Tracking::delta: the value returned and the wheel afterwards
OmniwheelDelta(w, position) ==
    LET distance == OmniwheelDistance(w, position)
    IN  [ret |-> distance - w.total, wheel |-> [w EXCEPT !.total = distance]]

\* Tracking::reset: self.total = Default::default(), the encoder is left alone
OmniwheelReset(w) == [w EXCEPT !.total = 0]

(***************************************************************************)
(* Heading resolution                                                      *)
(***************************************************************************)
\* const OFFSET_TOLERANCE: f64 = 0.5 (metres), in millimetres
OFFSET_TOLERANCE == 500

\* the pair the loops return for the qualifying indices i < j
OrderedPair(forward, i, j) ==
    IF Offset(forward[i]) < Offset(forward[j]) THEN <<i, j>> ELSE <<j, i>>

\* the loops of find_parallel_forward_indices, from the pair (i, j) on:
\* for i in 0..N { for j in (i + 1)..N { ... return Some(..) } } None
RECURSIVE ScanPairs(_, _, _)
ScanPairs(forward, i, j) ==
    IF i > Len(forward) THEN NoIndices
    ELSE IF j > Len(forward) THEN ScanPairs(forward, i + 1, i + 2)
    ELSE IF Abs(Offset(forward[i]) + Offset(forward[j])) <= OFFSET_TOLERANCE
    THEN [some |-> TRUE, val |-> OrderedPair(forward, i, j)]
    ELSE ScanPairs(forward, i, j + 1)

\* find_parallel_forward_indices that looks for the pair whose offsets sum
\* closest to zero instead of stopping at the first pair within tolerance
find_parallel_forward_indices_BestFit(forward) ==
    LET N == Len(forward)
        Q == {p \in (1..N) \X (1..N) :
                 /\ p[1] < p[2]
                 /\ Abs(Offset(forward[p[1]]) + Offset(forward[p[2]])) <= OFFSET_TOLERANCE}
        Err(p) == Abs(Offset(forward[p[1]]) + Offset(forward[p[2]]))
    IN  IF N < 2 \/ Q = {} THEN NoIndices
        ELSE LET f == CHOOSE p \in Q : \A q \in Q :
                          \/ Err(p) < Err(q)
                          \/ (Err(p) = Err(q) /\ (p[1] < q[1] \/ (p[1] = q[1] /\ p[2] <= q[2])))
             IN  [some |-> TRUE, val |-> OrderedPair(forward, f[1], f[2])]

\* find_parallel_forward_indices; indices are 1-based here
find_parallel_forward_indices(forward) ==
    IF Len(forward) < 2 THEN NoIndices ELSE ScanPairs(forward, 1, 2)

\* wheel_heading with the two travels exchanged
wheel_heading_Reversed(forward, pos, left_index, right_index) ==
    LET left        == forward[left_index]
        right       == forward[right_index]
        track_width == Abs(Offset(right) - Offset(left))
    IN  IF track_width = 0 THEN None
        ELSE Some(FDiv((Distance(left, pos[left_index])
                          - Distance(right, pos[right_index])) * Scale, track_width))

\* wheel_heading; pos is the sequence of forward encoder positions
wheel_heading(forward, pos, left_index, right_index) ==
    LET left        == forward[left_index]
        right       == forward[right_index]
        track_width == Abs(Offset(right) - Offset(left))
    IN  IF track_width = 0 THEN None
        ELSE Some(FDiv((Distance(right, pos[right_index])
                          - Distance(left, pos[left_index])) * Scale, track_width))

\* Result<QAngle, HeadingError>
Ok(h) == [tag |-> "Ok", heading |-> h, fallback |-> None]

ErrImu(fallback) == [tag |-> "Imu", heading |-> 0, fallback |-> fallback]

ErrRotary == [tag |-> "Rotary", heading |-> 0, fallback |-> None]

\* compute_raw_heading; imu_present is imu.is_some(), sensor the state of the
\* inertial sensor [heading (degrees), ok, gyro (degrees/s), gyroOk]
compute_raw_heading(imu_present, sensor, parallel_indices, forward, pos) ==
    IF imu_present
    THEN IF sensor.ok
         THEN Ok(FromDegrees(sensor.heading * (-1)))
         ELSE ErrImu(IF parallel_indices.some
                     THEN wheel_heading(forward, pos, parallel_indices.val[1],
                                        parallel_indices.val[2])
                     ELSE None)
    ELSE IF parallel_indices.some
         THEN LET h == wheel_heading(forward, pos, parallel_indices.val[1],
                                     parallel_indices.val[2])
              IN  IF h.some THEN Ok(h.val) ELSE ErrRotary
         ELSE ErrImu(None)

\* Pose::new(x, y, heading); position() is (x, y), heading() is heading
Pose(x, y, heading) == [x |-> x, y |-> y, heading |-> heading]

(***************************************************************************)
(* The per-tick computation of TrackingRig::task                           *)
(***************************************************************************)
DeltaHeading(raw_heading, prev_raw_heading) ==
    Remainder(raw_heading - prev_raw_heading, TAU)

AvgHeading(raw_heading, delta_heading, heading_offset) ==
    raw_heading + FDiv(delta_heading, 2) + heading_offset

UnitChord(delta_heading) == 2 * Sin(FDiv(delta_heading, 2))

\* LocalComponent that takes the offset of a wheel as a magnitude
LocalComponent_AbsOffset(delta, offset, delta_heading) ==
    IF delta_heading = 0
    THEN delta
    ELSE FDiv(UnitChord(delta_heading) * (FDiv(delta * Scale, delta_heading) + Abs(offset)),
              Scale)

\* one wheel's contribution to local_x_sum / local_y_sum
LocalComponent(delta, offset, delta_heading) ==
    IF delta_heading = 0
    THEN delta
    ELSE FDiv(UnitChord(delta_heading) * (FDiv(delta * Scale, delta_heading) + offset),
              Scale)

\* local_x (local_y): mean of the components of the wheels of one axis;
\* travel, prev and wheels are sequences of the same length
LocalAxis(travel, prev, wheels, delta_heading) ==
    IF Len(wheels) > 0
    THEN FDiv(SumSeq([i \in 1..Len(wheels) |->
                        LocalComponent(travel[i] - prev[i], Offset(wheels[i]),
                                       delta_heading)]),
              Len(wheels))
    ELSE 0

\* ForwardTravel without the division by forward_count
ForwardTravel_Sum(travel, prev_forward_travel) ==
    IF Len(travel) > 0 THEN SumSeq(travel) ELSE prev_forward_travel

ForwardTravel(travel, prev_forward_travel) ==
    IF Len(travel) > 0 THEN FDiv(SumSeq(travel), Len(travel)) ELSE prev_forward_travel

\* dt in milliseconds, velocity in mm/s
LinearVelocity(forward_travel, prev_forward_travel, dt) ==
    IF dt > 0 THEN FDiv((forward_travel - prev_forward_travel) * 1000, dt) ELSE 0

\* imu_present is imu.is_some() after the heading match; mrad/s
AngularVelocity(imu_present, sensor, delta_heading, dt) ==
    IF imu_present
    THEN IF sensor.gyroOk THEN FromDegrees(sensor.gyro) ELSE 0
    ELSE IF dt > 0 THEN FDiv(delta_heading * 1000, dt) ELSE 0

\* DxField that projects the forward displacement with the sine
DxField_Swapped(local_x, local_y, avg_heading) ==
    FDiv(local_x * Sin(avg_heading), Scale) - FDiv(local_y * Cos(avg_heading), Scale)

DxField(local_x, local_y, avg_heading) ==
    FDiv(local_x * Cos(avg_heading), Scale) - FDiv(local_y * Sin(avg_heading), Scale)

\* DyField with the sine and the cosine exchanged
DyField_Swapped(local_x, local_y, avg_heading) ==
    FDiv(local_x * Cos(avg_heading), Scale) + FDiv(local_y * Sin(avg_heading), Scale)

DyField(local_x, local_y, avg_heading) ==
    FDiv(local_x * Sin(avg_heading), Scale) + FDiv(local_y * Cos(avg_heading), Scale)

\* Publish interrupted after the pose: the velocities are not written yet
Publish_Torn(state, dx_field, dy_field, raw_heading, forward_travel, linear_velocity, angular_velocity, seq) ==
    [state EXCEPT
        !.borrow      = "mut",
        !.pose        = Pose(state.pose.x + dx_field, state.pose.y + dy_field,
                             raw_heading + state.heading_offset),
        !.raw_heading = raw_heading,
        !.stamp       = [state.stamp EXCEPT !.pose = seq]]

\* the writes under data.borrow_mut(); seq is the number of the publishing
\* iteration, recorded per field (history, not program state)
Publish(state, dx_field, dy_field, raw_heading, forward_travel, linear_velocity, angular_velocity, seq) ==
    [state EXCEPT
        !.borrow           = "mut",
        !.pose             = Pose(state.pose.x + dx_field, state.pose.y + dy_field,
                                  raw_heading + state.heading_offset),
        !.raw_heading      = raw_heading,
        !.forward_travel   = forward_travel,
        !.linear_velocity  = linear_velocity,
        !.angular_velocity = angular_velocity,
        !.stamp            = [pose |-> seq, linear_velocity |-> seq,
                              angular_velocity |-> seq]]

\* EndOfIteration with the RefMut kept alive into the next iteration
EndOfIteration_KeepsBorrow(state) == state

\* the end of the loop body: the RefMut `state` goes out of scope and the
\* cell is released before the task sleeps again
EndOfIteration(state) == [state EXCEPT !.borrow = "none"]

(***************************************************************************)
(* Bounds and input domains                                                *)
(***************************************************************************)
\* number of iterations of the task loop that are explored
MaxTicks == 2

\* arguments of TrackingRig::new: offsets of the forward wheels, offsets of
\* the sideways wheels, whether an InertialSensor is given, the origin pose;
\* start is the position of every encoder at construction, in ticks
Rigs ==
    {[fwd |-> <<-200, 200>>, side |-> <<>>,    hasImu |-> FALSE,
      origin |-> Pose(0, 0, 0), start |-> 0],
     [fwd |-> <<-200, 200>>, side |-> <<>>,    hasImu |-> FALSE,
      origin |-> Pose(1000, 500, HalfPI), start |-> 4],
     [fwd |-> <<200, -200>>, side |-> <<100>>, hasImu |-> FALSE,
      origin |-> Pose(0, 0, 0), start |-> 4],
     [fwd |-> <<-200, 200>>, side |-> <<>>,    hasImu |-> FALSE,
      origin |-> Pose(0, 0, PI), start |-> 0],
     [fwd |-> <<-200, 200>>, side |-> <<100>>, hasImu |-> TRUE,
      origin |-> Pose(0, 0, 0), start |-> 0],
     [fwd |-> <<200>>,       side |-> <<>>,    hasImu |-> TRUE,
      origin |-> Pose(1000, 500, HalfPI), start |-> 4],
     [fwd |-> <<200, 200>>,  side |-> <<>>,    hasImu |-> TRUE,
      origin |-> Pose(0, 0, 0), start |-> 0],
     [fwd |-> <<200>>,       side |-> <<>>,    hasImu |-> FALSE,
      origin |-> Pose(0, 0, 0), start |-> 0],
     [fwd |-> <<200, 200>>,  side |-> <<>>,    hasImu |-> FALSE,
      origin |-> Pose(0, 0, 0), start |-> 0],
     [fwd |-> <<300, 300>>,  side |-> <<>>,    hasImu |-> FALSE,
      origin |-> Pose(0, 0, 0), start |-> 0]}

\* encoder movement during one sleep: <<first forward wheel, second forward
\* wheel, sideways wheel>>, in ticks: at rest, straight, pivot, arc
Moves(r) ==
    {<<0, 0, 0>>, <<4, 4, 0>>, <<-4, 4, 4>>}
        \cup (IF r.hasImu THEN {} ELSE {<<4, 8, 0>>})

\* states of the inertial sensor: heading() in degrees or an error,
\* gyro_rate().z in degrees/s or an error
ImuStates ==
    {[heading |-> 10,  ok |-> TRUE,  gyro |-> 30, gyroOk |-> TRUE],
     [heading |-> 350, ok |-> TRUE,  gyro |-> 30, gyroOk |-> FALSE],
     [heading |-> 170, ok |-> TRUE,  gyro |-> 0,  gyroOk |-> TRUE],
     [heading |-> 10,  ok |-> FALSE, gyro |-> 0,  gyroOk |-> FALSE]}

NoSensor == [heading |-> 0, ok |-> FALSE, gyro |-> 0, gyroOk |-> FALSE]

\* time that passes during one sleep, in milliseconds; 0 is a clock that has
\* not advanced (Instant::elapsed saturates to zero)
SleepTimes == {0, 10}

(***************************************************************************)
(* State                                                                   *)
(***************************************************************************)
VARIABLES
    rig,                  \* the arguments TrackingRig::new was called with
    pc,                   \* "new", "sleeping", "ready", "returned", "panicked", "rejected"
    forward, sideways,    \* the TrackingWheel arrays
    encF, encS,           \* environment: encoder positions, in ticks
    encErr,               \* environment: an encoder's position() returns Err
    sensor,               \* environment: state of the inertial sensor
    now,                  \* environment: Instant::now(), in milliseconds
    data,                 \* Rc<RefCell<TrackingData>>
    imu,                  \* task local: imu.is_some()
    parallel_indices,     \* task local
    prev_forward, prev_sideways, prev_raw_heading, prev_forward_travel, prev_time,
    ticks,                \* history: loop iterations run so far
    last,                 \* history: what the last iteration did and computed
    rd,                   \* a caller of the read accessors: what it has read so far
    scan,                 \* a call of find_parallel_forward_indices on its own
    tw,                   \* a TrackingWheel used on its own, with its encoder
    pid,                  \* a Pid controller, with its clock
    traj,                 \* a Trajectory and a call of Trajectory::sample
    lg,                   \* the logger: its callers, its channel and its thread
    sh                    \* a call of OdomChassis::shoot

vars == <<rig, pc, forward, sideways, encF, encS, encErr, sensor, now, data, imu,
          parallel_indices, prev_forward, prev_sideways, prev_raw_heading,
          prev_forward_travel, prev_time, ticks, last, rd, scan, tw, pid,
          traj, lg, sh>>

\* the objects that are used without a rig
libVars == <<scan, tw, pid, traj, lg, sh>>

\* the rig, its task, its environment and its caller
rigVars == <<rig, pc, forward, sideways, encF, encS, encErr, sensor, now, data, imu,
             parallel_indices, prev_forward, prev_sideways, prev_raw_heading,
             prev_forward_travel, prev_time, ticks, last, rd>>

envVars == <<encF, encS, encErr, sensor, now>>

taskVars == <<imu, prev_forward, prev_sideways, prev_raw_heading,
              prev_forward_travel, prev_time>>

N == Len(forward)

U == Len(sideways)

NoTick ==
    [outcome |-> "none", source |-> "none", imuRead |-> FALSE, encFailed |-> FALSE,
     raw_heading |-> 0, prev_raw_heading |-> 0, delta_heading |-> 0,
     avg_heading |-> 0, dt |-> 0, local_x |-> 0, local_y |-> 0]

\* a caller that has not called an accessor yet
NoReads ==
    [n |-> 0, tick |-> 0, same |-> TRUE, pose |-> Pose(0, 0, 0), linear_velocity |-> 0,
     angular_velocity |-> 0, stamps |-> <<>>, failed |-> FALSE]

\* RefCell<TrackingData>: the struct, the borrow state of the cell ("none"
\* or "mut") and the history field stamp
TrackingData(pose, raw_heading, heading_offset, forward_travel) ==
    [pose |-> pose, raw_heading |-> raw_heading, heading_offset |-> heading_offset,
     forward_travel |-> forward_travel, linear_velocity |-> 0, angular_velocity |-> 0,
     borrow |-> "none",
     stamp |-> [pose |-> 0, linear_velocity |-> 0, angular_velocity |-> 0]]

Wheels(offsets) == [i \in 1..Len(offsets) |-> TrackingWheel(offsets[i], Omni275, Some(1))]

\* distances read from all wheels of one array
ReadAll(wheels, pos) == [i \in 1..Len(wheels) |-> Distance(wheels[i], pos[i])]

StoreAll(wheels, pos) == [i \in 1..Len(wheels) |-> AfterDistance(wheels[i], pos[i])]

\* no call of find_parallel_forward_indices on its own
NoScan == [offsets |-> <<>>, called |-> FALSE, result |-> NoIndices]

\* no TrackingWheel on its own
NoWheel == [impl |-> "none"]

\* no Pid controller
NoPid == [made |-> FALSE]

\* no Trajectory
NoTraj == [points |-> <<>>, sampled |-> FALSE]

\* no logger
NoLogger == [thread |-> "none"]

\* no call of OdomChassis::shoot
NoShoot == [pc |-> "none"]

\* the wheels are built and handed to TrackingRig::new
Init ==
    /\ rig \in Rigs
    /\ pc = "new"
    /\ forward = Wheels(rig.fwd)
    /\ sideways = Wheels(rig.side)
    /\ encF = [i \in 1..Len(rig.fwd) |-> rig.start]
    /\ encS = [i \in 1..Len(rig.side) |-> rig.start]
    /\ encErr \in BOOLEAN
    /\ sensor \in (IF rig.hasImu THEN ImuStates ELSE {NoSensor})
    /\ now = 0
    /\ data = TrackingData(Pose(0, 0, 0), 0, 0, 0)
    /\ imu = FALSE
    /\ parallel_indices = NoIndices
    /\ prev_forward = <<>>
    /\ prev_sideways = <<>>
    /\ prev_raw_heading = 0
    /\ prev_forward_travel = 0
    /\ prev_time = 0
    /\ ticks = 0
    /\ last = NoTick
    /\ rd = NoReads
    /\ scan = NoScan
    /\ tw = NoWheel
    /\ pid = NoPid
    /\ traj = NoTraj
    /\ lg = NoLogger
    /\ sh = NoShoot

(***************************************************************************)
(* TrackingRig::new                                                        *)
(***************************************************************************)
\* Result::unwrap_or_default
UnwrapOrDefault(res) == IF res.tag = "Ok" THEN res.heading ELSE 0

\* let initial_forward_travel = if N > 0 {0.0} else {sum / N}
InitialForwardTravel(initial_forward) ==
    IF Len(initial_forward) > 0 THEN 0
    ELSE FDiv(SumSeq(initial_forward), Len(initial_forward))

\* the assert! of TrackingRig::new
HeadingDeterminable(imu_given, indices) == imu_given \/ indices.some

New ==
    /\ pc = "new"
    /\ LET indices == find_parallel_forward_indices(forward)
       IN  IF ~HeadingDeterminable(rig.hasImu, indices)
           THEN /\ pc' = "rejected"
                /\ UNCHANGED <<forward, sideways, data, parallel_indices>>
                /\ UNCHANGED taskVars
           ELSE IF encErr
           THEN \* encoder.position().unwrap() in TrackingWheel::distance
                /\ pc' = "panicked"
                /\ UNCHANGED <<forward, sideways, data, parallel_indices>>
                /\ UNCHANGED taskVars
           ELSE LET initial_heading ==
                        UnwrapOrDefault(compute_raw_heading(rig.hasImu, sensor, indices,
                                                            forward, encF))
                    initial_forward  == ReadAll(forward, encF)
                    initial_sideways == ReadAll(sideways, encS)
                    initial_forward_travel == InitialForwardTravel(initial_forward)
                IN  /\ pc' = "sleeping"
                    /\ forward' = StoreAll(forward, encF)
                    /\ sideways' = StoreAll(sideways, encS)
                    /\ data' = TrackingData(rig.origin, initial_heading,
                                            rig.origin.heading, initial_forward_travel)
                    /\ imu' = rig.hasImu
                    /\ parallel_indices' = indices
                    /\ prev_forward' = initial_forward
                    /\ prev_sideways' = initial_sideways
                    /\ prev_raw_heading' = initial_heading
                    /\ prev_forward_travel' = initial_forward_travel
                    /\ prev_time' = now
    /\ UNCHANGED <<rig, ticks, last, rd>>
    /\ UNCHANGED envVars
    /\ UNCHANGED libVars

(***************************************************************************)
(* TrackingRig::task                                                       *)
(***************************************************************************)
\* sleep(Duration::from_millis(10)).await: the only suspension point of the
\* loop.  While the task is suspended the encoders turn, the sensors change
\* state and the clock advances.
Sleep ==
    /\ pc = "sleeping"
    /\ ticks < MaxTicks
    /\ pc' = "ready"
    /\ \E m \in Moves(rig) :
          /\ encF' = [i \in 1..N |-> encF[i] + m[i]]
          /\ encS' = [i \in 1..U |-> encS[i] + m[3]]
    /\ encErr' \in BOOLEAN
    /\ sensor' \in (IF rig.hasImu THEN ImuStates ELSE {NoSensor})
    /\ \E d \in SleepTimes : now' = now + d
    /\ UNCHANGED <<rig, forward, sideways, data, parallel_indices, ticks, last, rd>>
    /\ UNCHANGED taskVars
    /\ UNCHANGED libVars

\* HeadingMatch without the assignment imu = None of the Imu arm
HeadingMatch_KeepImu(res, imu_present) ==
    IF res.tag = "Ok"
    THEN [flow |-> "go", raw_heading |-> res.heading, imu |-> imu_present]
    ELSE IF res.tag = "Imu"
    THEN IF res.fallback.some
         THEN [flow |-> "go", raw_heading |-> res.fallback.val, imu |-> imu_present]
         ELSE [flow |-> "return", raw_heading |-> 0, imu |-> imu_present]
    ELSE [flow |-> "continue", raw_heading |-> 0, imu |-> imu_present]

\* HeadingMatch that skips the iteration where the Imu arm returns
HeadingMatch_ContinueOnLoss(res, imu_present) ==
    IF res.tag = "Ok"
    THEN [flow |-> "go", raw_heading |-> res.heading, imu |-> imu_present]
    ELSE IF res.tag = "Imu"
    THEN IF res.fallback.some
         THEN [flow |-> "go", raw_heading |-> res.fallback.val, imu |-> FALSE]
         ELSE [flow |-> "continue", raw_heading |-> 0, imu |-> FALSE]
    ELSE [flow |-> "continue", raw_heading |-> 0, imu |-> FALSE]

\* HeadingMatch that treats a failed inertial read as any other sensor error
\* and skips the iteration, also when a fallback heading came with it
HeadingMatch_SkipOnImuError(res, imu_present) ==
    IF res.tag = "Ok"
    THEN [flow |-> "go", raw_heading |-> res.heading, imu |-> imu_present]
    ELSE IF res.tag = "Imu"
    THEN IF res.fallback.some
         THEN [flow |-> "continue", raw_heading |-> 0, imu |-> FALSE]
         ELSE [flow |-> "return", raw_heading |-> 0, imu |-> FALSE]
    ELSE [flow |-> "continue", raw_heading |-> 0, imu |-> FALSE]

\* the match on the result of compute_raw_heading: what the iteration does
\* next ("go" on to integrate, "return", "continue"), the raw heading it goes
\* on with, and the new value of imu.is_some()
HeadingMatch(res, imu_present) ==
    IF res.tag = "Ok"
    THEN [flow |-> "go", raw_heading |-> res.heading, imu |-> imu_present]
    ELSE IF res.tag = "Imu"
    THEN IF res.fallback.some
         THEN [flow |-> "go", raw_heading |-> res.fallback.val, imu |-> FALSE]
         ELSE [flow |-> "return", raw_heading |-> 0, imu |-> FALSE]
    ELSE IF imu_present
    THEN [flow |-> "continue", raw_heading |-> 0, imu |-> FALSE]
    ELSE [flow |-> "continue", raw_heading |-> 0, imu |-> imu_present]

\* one iteration of the loop, from the wake-up to the next sleep
Tick ==
    /\ pc = "ready"
    /\ ticks' = ticks + 1
    /\ IF encErr
       THEN \* encoder.position().unwrap() in TrackingWheel::distance
            /\ pc' = "panicked"
            /\ last' = [NoTick EXCEPT !.outcome = "panicked", !.encFailed = TRUE]
            /\ UNCHANGED <<forward, sideways, data>>
            /\ UNCHANGED taskVars
       ELSE LET forward_travels  == ReadAll(forward, encF)
                sideways_travels == ReadAll(sideways, encS)
                res == compute_raw_heading(imu, sensor, parallel_indices, forward, encF)
                m   == HeadingMatch(res, imu)
            IN  /\ forward' = StoreAll(forward, encF)
                /\ sideways' = StoreAll(sideways, encS)
                /\ imu' = m.imu
                /\ IF m.flow = "return"
                   THEN /\ pc' = "returned"
                        /\ last' = [NoTick EXCEPT !.outcome = "returned", !.imuRead = imu]
                        /\ UNCHANGED <<data, prev_forward, prev_sideways, prev_raw_heading,
                                       prev_forward_travel, prev_time>>
                   ELSE IF m.flow = "continue"
                   THEN /\ pc' = "sleeping"
                        /\ last' = [NoTick EXCEPT !.outcome = "skipped", !.imuRead = imu]
                        /\ UNCHANGED <<data, prev_forward, prev_sideways, prev_raw_heading,
                                       prev_forward_travel, prev_time>>
                   ELSE LET raw_heading   == m.raw_heading
                            delta_heading == DeltaHeading(raw_heading, prev_raw_heading)
                            avg_heading   == AvgHeading(raw_heading, delta_heading,
                                                        data.heading_offset)
                            local_x == LocalAxis(forward_travels, prev_forward, forward,
                                                 delta_heading)
                            local_y == LocalAxis(sideways_travels, prev_sideways, sideways,
                                                 delta_heading)
                            dt == now - prev_time
                            forward_travel   == ForwardTravel(forward_travels,
                                                              prev_forward_travel)
                            linear_velocity  == LinearVelocity(forward_travel,
                                                               prev_forward_travel, dt)
                            angular_velocity == AngularVelocity(m.imu, sensor,
                                                                delta_heading, dt)
                            dx_field == DxField(local_x, local_y, avg_heading)
                            dy_field == DyField(local_x, local_y, avg_heading)
                        IN  /\ pc' = "sleeping"
                            /\ prev_raw_heading' = raw_heading
                            /\ prev_forward' = forward_travels
                            /\ prev_sideways' = sideways_travels
                            /\ prev_time' = now
                            /\ prev_forward_travel' = forward_travel
                            /\ data' = EndOfIteration(
                                           Publish(data, dx_field, dy_field, raw_heading,
                                                   forward_travel, linear_velocity,
                                                   angular_velocity, ticks + 1))
                            /\ last' = [outcome       |-> "published",
                                        source        |-> IF imu /\ res.tag = "Ok"
                                                          THEN "imu" ELSE "wheel",
                                        imuRead       |-> imu,
                                        encFailed     |-> FALSE,
                                        raw_heading   |-> raw_heading,
                                        prev_raw_heading |-> prev_raw_heading,
                                        delta_heading |-> delta_heading,
                                        avg_heading   |-> avg_heading,
                                        dt            |-> dt,
                                        local_x       |-> local_x,
                                        local_y       |-> local_y]
    /\ UNCHANGED <<rig, parallel_indices, rd>>
    /\ UNCHANGED envVars
    /\ UNCHANGED libVars

Next == New \/ Sleep \/ Tick

Spec == Init /\ [][Next]_vars

(***************************************************************************)
(* The read accessors TrackingRig::pose, linear_velocity, angular_velocity *)
(***************************************************************************)
\* self.data.borrow().<field>: a copy of one field of the shared data
Borrow(state, field) == state[field]

\* the rig exists and the program runs: TrackingRig::new has returned
Constructed == pc \in {"sleeping", "ready", "returned"}

\* what the caller knows after one more accessor call; RefCell::borrow
\* panics when the cell is mutably borrowed
Called(field) ==
    IF data.borrow = "mut"
    THEN [rd EXCEPT !.failed = TRUE]
    ELSE [rd EXCEPT !.n      = rd.n + 1,
                    !.tick   = IF rd.n = 0 THEN ticks ELSE rd.tick,
                    !.same   = rd.n = 0 \/ (rd.same /\ rd.tick = ticks),
                    ![field] = Borrow(data, field),
                    !.stamps = Append(rd.stamps, data.stamp[field])]

ReadPose ==
    /\ Constructed
    /\ rd.n = 0
    /\ rd' = Called("pose")
    /\ UNCHANGED <<rig, pc, forward, sideways, data, parallel_indices, ticks, last>>
    /\ UNCHANGED envVars
    /\ UNCHANGED taskVars
    /\ UNCHANGED libVars

ReadLinearVelocity ==
    /\ Constructed
    /\ rd.n = 1
    /\ rd' = Called("linear_velocity")
    /\ UNCHANGED <<rig, pc, forward, sideways, data, parallel_indices, ticks, last>>
    /\ UNCHANGED envVars
    /\ UNCHANGED taskVars
    /\ UNCHANGED libVars

ReadAngularVelocity ==
    /\ Constructed
    /\ rd.n = 2
    /\ rd' = Called("angular_velocity")
    /\ UNCHANGED <<rig, pc, forward, sideways, data, parallel_indices, ticks, last>>
    /\ UNCHANGED envVars
    /\ UNCHANGED taskVars
    /\ UNCHANGED libVars

\* the rigs explored together with a caller of the accessors
ReaderRigs == {r \in Rigs : ~r.hasImu /\ r.start = 0}

InitRead == Init /\ rig \in ReaderRigs

NextRead == Next \/ ReadPose \/ ReadLinearVelocity \/ ReadAngularVelocity

SpecRead == InitRead /\ [][NextRead]_vars

(***************************************************************************)
(* Objects used without a rig                                              *)
(***************************************************************************)
\* no rig is built
NoRig ==
    /\ rig = [fwd |-> <<>>, side |-> <<>>, hasImu |-> FALSE,
              origin |-> Pose(0, 0, 0), start |-> 0]
    /\ pc = "new"
    /\ forward = <<>>
    /\ sideways = <<>>
    /\ encF = <<>>
    /\ encS = <<>>
    /\ encErr = FALSE
    /\ sensor = NoSensor
    /\ now = 0
    /\ data = TrackingData(Pose(0, 0, 0), 0, 0, 0)
    /\ imu = FALSE
    /\ parallel_indices = NoIndices
    /\ prev_forward = <<>>
    /\ prev_sideways = <<>>
    /\ prev_raw_heading = 0
    /\ prev_forward_travel = 0
    /\ prev_time = 0
    /\ ticks = 0
    /\ last = NoTick
    /\ rd = NoReads

(***************************************************************************)
(* find_parallel_forward_indices on arbitrary forward wheels               *)
(***************************************************************************)
\* largest number of forward wheels handed to the function
MaxWheels == 3

\* offsets of the forward wheels, in millimetres; 200 + 300 is the tolerance
ScanOffsets == {-200, -100, 200, 300}

\* gearing arguments of the wheels
ScanRatios == {None, Some(2)}

ScanInputs == UNION {[1..n -> ScanOffsets] : n \in 0..MaxWheels}

InitScan ==
    /\ NoRig
    /\ traj = NoTraj
    /\ lg = NoLogger
    /\ sh = NoShoot
    /\ scan \in {[offsets |-> o, called |-> FALSE, result |-> NoIndices] : o \in ScanInputs}
    /\ tw = NoWheel
    /\ pid = NoPid

\* the wheels are built with the offsets and handed to the function
FindParallel ==
    /\ ~scan.called
    /\ \E ratio \in ScanRatios :
          LET wheels == [i \in 1..Len(scan.offsets) |->
                            TrackingWheel(scan.offsets[i], Omni275, ratio)]
          IN  scan' = [scan EXCEPT !.called = TRUE,
                                  !.result = find_parallel_forward_indices(wheels)]
    /\ UNCHANGED rigVars
    /\ UNCHANGED <<tw, pid, traj, lg, sh>>

NextScan == FindParallel

SpecScan == InitScan /\ [][NextScan]_vars

(***************************************************************************)
(* A TrackingWheel on its own: its caller and its encoder                  *)
(***************************************************************************)
\* number of calls and encoder movements that are explored
MaxOps == 4

\* the two implementations: odom/wheel.rs and omniwheel.rs
WheelImpls == {"odom", "omni"}

\* gearing arguments of the constructors
WheelRatios == {None, Some(2)}

\* position of the encoder when the wheel is built, in ticks
WheelStarts == {0, 4}

\* encoder movement between two calls, in ticks; 360 is one turn
WheelMoves == {-4, 4, 360}

\* the wheel as built, with the history of its use: op and ret are the
\* last call and what it returned, fresh tells that reset() was called and
\* the wheel has not moved since, resetAt is the encoder position left by
\* the last reset(), deltaAt (deltaFrom) the position at the last (the last
\* but one) delta() call, deltaSum the sum of what delta() returned
NewWheel(impl, ratio, reversed, start) ==
    [impl      |-> impl,
     ratio     |-> ratio,
     wheel     |-> IF impl = "odom"
                   THEN TrackingWheel(200, Omni275, ratio)
                   ELSE SetReversed(OmniwheelTrackingWheel(200, Omni275, ratio), reversed),
     position  |-> start,
     start     |-> start,
     op        |-> "new",
     ret       |-> 0,
     fresh     |-> FALSE,
     resetAt   |-> None,
     deltaAt   |-> start,
     deltaFrom |-> start,
     deltaSum  |-> 0,
     ops       |-> 0]

InitWheel ==
    /\ NoRig
    /\ traj = NoTraj
    /\ lg = NoLogger
    /\ sh = NoShoot
    /\ scan = NoScan
    /\ pid = NoPid
    /\ tw \in {NewWheel(impl, ratio, reversed, start) :
                  impl \in WheelImpls, ratio \in WheelRatios,
                  reversed \in BOOLEAN, start \in WheelStarts}

\* the distance the implementation at hand computes for an encoder position
DistanceOf(w, position) ==
    IF tw.impl = "odom" THEN Distance(w, position) ELSE OmniwheelDistance(w, position)

\* the robot moves: the encoder turns
EncoderTurns ==
    /\ tw.ops < MaxOps
    /\ \E m \in WheelMoves :
          tw' = [tw EXCEPT !.position = tw.position + m, !.op = "move", !.ret = 0,
                           !.fresh = FALSE, !.ops = tw.ops + 1]
    /\ UNCHANGED rigVars
    /\ UNCHANGED <<scan, pid, traj, lg, sh>>

\* wheel.distance(), with an encoder whose read succeeds
CallDistance ==
    /\ tw.ops < MaxOps
    /\ tw' = [tw EXCEPT !.wheel = IF tw.impl = "odom"
                                  THEN AfterDistance(tw.wheel, tw.position)
                                  ELSE OmniwheelAfterDistance(tw.wheel, tw.position),
                        !.op = "distance",
                        !.ret = DistanceOf(tw.wheel, tw.position),
                        !.ops = tw.ops + 1]
    /\ UNCHANGED rigVars
    /\ UNCHANGED <<scan, pid, traj, lg, sh>>

\* wheel.delta(), with an encoder whose read succeeds
CallDelta ==
    /\ tw.ops < MaxOps
    /\ LET r == IF tw.impl = "odom" THEN Delta(tw.wheel, tw.position)
                ELSE OmniwheelDelta(tw.wheel, tw.position)
       IN  tw' = [tw EXCEPT !.wheel = r.wheel, !.op = "delta", !.ret = r.ret,
                            !.deltaFrom = tw.deltaAt, !.deltaAt = tw.position,
                            !.deltaSum = tw.deltaSum + r.ret, !.ops = tw.ops + 1]
    /\ UNCHANGED rigVars
    /\ UNCHANGED <<scan, pid, traj, lg, sh>>

\* wheel.reset(); the encoder of odom/wheel.rs may refuse the reset
CallReset ==
    /\ tw.ops < MaxOps
    /\ \E ok \in BOOLEAN :
          LET r == IF tw.impl = "odom" THEN Reset(tw.wheel, tw.position, ok)
                   ELSE [wheel |-> OmniwheelReset(tw.wheel), position |-> tw.position]
          IN  tw' = [tw EXCEPT !.wheel = r.wheel, !.position = r.position,
                               !.op = "reset", !.ret = 0, !.fresh = TRUE,
                               !.resetAt = Some(r.position), !.ops = tw.ops + 1]
    /\ UNCHANGED rigVars
    /\ UNCHANGED <<scan, pid, traj, lg, sh>>

NextWheel == EncoderTurns \/ CallDistance \/ CallDelta \/ CallReset

SpecWheel == InitWheel /\ [][NextWheel]_vars

(***************************************************************************)
(* Pid (control/pid.rs)                                                    *)
(*                                                                         *)
(* Errors, outputs and gains are in thousandths, times in milliseconds.    *)
(* Of the f64 values that are no numbers the model keeps NaN, which        *)
(* arithmetic propagates and comparisons reject, and the infinities the    *)
(* limits start at, which lie beyond every value computed here.            *)
(***************************************************************************)
\* f64::NAN
NaN == 0 - 2 ^ 30

IsNaN(x) == x = NaN

\* f64::INFINITY, f64::NEG_INFINITY
INFINITY == 2 ^ 29

NEG_INFINITY == 0 - INFINITY

\* a + b, a - b, a * b of f64
FAdd(a, b) == IF IsNaN(a) \/ IsNaN(b) THEN NaN ELSE a + b

FSub(a, b) == IF IsNaN(a) \/ IsNaN(b) THEN NaN ELSE a - b

FMul(a, b) == IF IsNaN(a) \/ IsNaN(b) THEN NaN ELSE FDiv(a * b, Scale)

\* f64::clamp without its upper limit
Clamp_NoUpper(x, min, max) ==
    IF IsNaN(x) THEN NaN
    ELSE IF x < min THEN min ELSE x

\* f64::clamp(self, min, max) for min <= max: a NaN is neither below min nor
\* above max and is returned as it is
Clamp(x, min, max) ==
    IF IsNaN(x) THEN NaN
    ELSE IF x < min THEN min
    ELSE IF x > max THEN max
    ELSE x

\* number of Pid::calculate calls that are explored
MaxCalls == 2

\* arguments of set_gains: kp, ki, kd
PidGains == {<<10000, 0, 0>>, <<0, 1000, 0>>, <<2000, 600, 400>>}

\* arguments of with_output_limits, min <= max
OutputLimits == {<<-5000, 5000>>, <<0, 1000>>, <<-2000, -1000>>}

\* arguments of with_integral_limits, min <= max
IntegralLimits == {<<-5, 5>>}

\* setpoints and measurements handed to calculate
Setpoints == {0, 1000, NaN}

Measurements == {0, 1000}

\* time that passes between two calls, in milliseconds
PidSleepTimes == {0, 10}

\* Pid::new(); elapsed is self.time.elapsed(); op, before, calls, out and
\* raw are history: the last call, the call that preceded the last
\* calculate, the number of calculate calls, what the last calculate
\* returned and the value it handed to clamp; limited, tuned and
\* ilimited tell which builder methods were called
PidNew ==
    [made |-> TRUE,
     kp |-> 0, ki |-> 0, kd |-> 0,
     integral |-> 0, previous_error |-> 0,
     elapsed |-> 0, last_time |-> 0,
     min |-> NEG_INFINITY, max |-> INFINITY,
     imin |-> NEG_INFINITY, imax |-> INFINITY,
     op |-> "new", before |-> "new", calls |-> 0, out |-> 0, raw |-> 0,
     limited |-> FALSE, tuned |-> FALSE, ilimited |-> FALSE]

InitPid ==
    /\ NoRig
    /\ traj = NoTraj
    /\ lg = NoLogger
    /\ sh = NoShoot
    /\ scan = NoScan
    /\ tw = NoWheel
    /\ pid = PidNew

\* Pid::set_gains
SetGains ==
    /\ ~pid.tuned
    /\ \E g \in PidGains :
          pid' = [pid EXCEPT !.kp = g[1], !.ki = g[2], !.kd = g[3],
                             !.tuned = TRUE, !.op = "set_gains"]
    /\ UNCHANGED rigVars
    /\ UNCHANGED <<scan, tw, traj, lg, sh>>

\* Pid::with_output_limits
WithOutputLimits ==
    /\ ~pid.limited
    /\ \E l \in OutputLimits :
          pid' = [pid EXCEPT !.min = l[1], !.max = l[2],
                             !.limited = TRUE, !.op = "with_output_limits"]
    /\ UNCHANGED rigVars
    /\ UNCHANGED <<scan, tw, traj, lg, sh>>

\* Pid::with_integral_limits
WithIntegralLimits ==
    /\ ~pid.ilimited
    /\ \E l \in IntegralLimits :
          pid' = [pid EXCEPT !.imin = l[1], !.imax = l[2],
                             !.ilimited = TRUE, !.op = "with_integral_limits"]
    /\ UNCHANGED rigVars
    /\ UNCHANGED <<scan, tw, traj, lg, sh>>

\* Pid::calculate(setpoint, actual) at the time t on the clock of the
\* controller: the controller afterwards, with the value returned in out
Calculate(p, setpoint, actual, t) ==
    LET error      == FSub(setpoint, actual)
        dt0        == t - p.last_time
        dt         == IF dt0 <= 0 THEN 1 ELSE dt0
        de         == FSub(error, p.previous_error)
        integral   == Clamp(FAdd(p.integral,
                                 IF IsNaN(error) THEN NaN ELSE FDiv(error * dt, 1000)),
                            p.imin, p.imax)
        derivative == IF dt > 0
                      THEN (IF IsNaN(de) THEN NaN ELSE FDiv(de * 1000, dt))
                      ELSE 0
        raw        == FAdd(FAdd(FMul(p.kp, error), FMul(p.ki, integral)),
                           FMul(derivative, p.kd))
    IN  [p EXCEPT !.integral = integral,
                  !.previous_error = error,
                  !.elapsed = t,
                  !.last_time = t,
                  !.raw = raw,
                  !.out = Clamp(raw, p.min, p.max),
                  !.op = "calculate",
                  !.before = p.op,
                  !.calls = p.calls + 1]

CallCalculate ==
    /\ pid.calls < MaxCalls
    /\ \E setpoint \in Setpoints, actual \in Measurements, d \in PidSleepTimes :
          pid' = Calculate(pid, setpoint, actual, pid.elapsed + d)
    /\ UNCHANGED rigVars
    /\ UNCHANGED <<scan, tw, traj, lg, sh>>

\* Pid::reset that leaves the integral term as it is
PidResetState_KeepsIntegral(p) ==
    [p EXCEPT !.previous_error = 0, !.elapsed = 0, !.last_time = 0]

\* the assignments of Pid::reset; self.time = Instant::now() restarts the
\* clock of the controller
PidResetState(p) ==
    [p EXCEPT !.integral = 0, !.previous_error = 0, !.elapsed = 0, !.last_time = 0]

\* Pid::new().set_gains(..).with_output_limits(..).with_integral_limits(..)
\* with the gains and the limits of p
Rebuilt(p) ==
    [PidNew EXCEPT !.kp = p.kp, !.ki = p.ki, !.kd = p.kd,
                   !.min = p.min, !.max = p.max, !.imin = p.imin, !.imax = p.imax]

\* Pid::reset
PidReset ==
    /\ pid.op = "calculate"
    /\ pid' = [PidResetState(pid) EXCEPT !.op = "reset"]
    /\ UNCHANGED rigVars
    /\ UNCHANGED <<scan, tw, traj, lg, sh>>

NextPid == SetGains \/ WithOutputLimits \/ WithIntegralLimits \/ CallCalculate \/ PidReset

SpecPid == InitPid /\ [][NextPid]_vars

(***************************************************************************)
(* Properties                                                              *)
(***************************************************************************)
\* a step that runs one iteration of the loop
TickStep == ticks' = ticks + 1

\* a step that runs one iteration which publishes a snapshot
PublishStep == TickStep /\ last'.outcome = "published"

\* the wheel-differential heading of the detected pair, from the encoders
WheelEstimate ==
    IF parallel_indices.some
    THEN wheel_heading(forward, encF, parallel_indices.val[1], parallel_indices.val[2])
    ELSE None

\* C1: fallback permanence.  In a rig built with an inertial sensor, once a
\* heading read has failed in some iteration (imu is None from then on), imu
\* stays None; the failing iteration and every later one that publishes takes
\* its raw heading from the wheel pair, and no later iteration reads the
\* sensor, whatever the sensor would report.
C1_FallbackPermanence ==
    [][(rig.hasImu /\ Constructed) =>
          /\ (TickStep /\ imu /\ ~encErr /\ ~sensor.ok) => ~imu'
          /\ ~imu => ~imu'
          /\ (TickStep /\ ~imu) => ~last'.imuRead
          /\ (PublishStep /\ ~imu') =>
                /\ last'.source = "wheel"
                /\ WheelEstimate'.some
                /\ data'.raw_heading = WheelEstimate'.val]_vars

\* C1 witness: the read failed in the first iteration and the second one
\* published from the wheels although the sensor reports success again
C1_Witness ==
    /\ rig.hasImu /\ ~imu /\ ticks = 2 /\ pc = "sleeping"
    /\ last.outcome = "published" /\ last.source = "wheel" /\ ~last.imuRead
    /\ sensor.ok
    /\ data.stamp.pose = 2

\* C2: an iteration in which an encoder read fails is skipped and the loop
\* goes on (the task sleeps again, nothing published)
C2_EncoderFailureSkipsTick ==
    last.encFailed => (pc = "sleeping" /\ last.outcome = "skipped")

\* C3: a rig constructed without an inertial sensor can compute the
\* wheel-differential heading in its iterations
C3_ConstructedRigHasHeading ==
    (Constructed /\ ~rig.hasImu) => WheelEstimate.some

\* C4: snapshot atomicity.  Whenever the task is suspended the three
\* published fields were written by the same iteration, which wrote them at
\* most once; a caller whose pose(), linear_velocity() and angular_velocity()
\* calls had no iteration in between gets three values of one iteration, the
\* ones of the snapshot as it stands.
C4_SnapshotAtomic ==
    /\ data.stamp.pose = data.stamp.linear_velocity
    /\ data.stamp.pose = data.stamp.angular_velocity
    /\ data.stamp.pose <= ticks
    /\ (rd.n = 3 /\ rd.same) =>
          /\ rd.stamps[1] = rd.stamps[2] /\ rd.stamps[2] = rd.stamps[3]
          /\ rd.tick = ticks =>
                /\ rd.pose = data.pose
                /\ rd.linear_velocity = data.linear_velocity
                /\ rd.angular_velocity = data.angular_velocity

\* C4 witness: the three accessors were called between the first and the
\* second iteration and returned the values the first iteration published
C4_Witness ==
    /\ rd.n = 3 /\ rd.same /\ rd.tick = 1 /\ rd.stamps = <<1, 1, 1>>
    /\ rd.pose # rig.origin

\* C5: unrecoverable heading loss.  An iteration whose inertial read fails
\* with no wheel estimate to fall back on ends the task without publishing,
\* and once the task has returned the snapshot never changes.
C5_HaltOnHeadingLoss ==
    [][/\ (TickStep /\ imu /\ ~encErr /\ ~sensor.ok /\ ~WheelEstimate.some) =>
             (pc' = "returned" /\ data' = data)
       /\ pc = "returned" => (pc' = "returned" /\ data' = data)]_vars

\* C5 witness: the task published in its first iteration and returned in
\* the second; the snapshot is the one of the first iteration
C5_Witness ==
    /\ pc = "returned" /\ ticks = 2 /\ last.outcome = "returned"
    /\ data.stamp.pose = 1 /\ ~sensor.ok

\* C6: the iteration whose inertial read fails while the wheel pair gives an
\* estimate is not skipped: it publishes, with the wheel estimate as its raw
\* heading.
C6_FallbackTickPublishes ==
    [][(TickStep /\ imu /\ ~encErr /\ ~sensor.ok /\ WheelEstimate.some) =>
          /\ pc' = "sleeping"
          /\ last'.outcome = "published"
          /\ data'.raw_heading = WheelEstimate.val
          /\ data'.stamp.pose = ticks']_vars

\* C6 witness: the iteration that has just published is the one whose
\* inertial read failed
C6_Witness ==
    /\ rig.hasImu /\ ~imu /\ last.imuRead /\ ~sensor.ok
    /\ last.outcome = "published" /\ last.source = "wheel"
    /\ data.stamp.pose = ticks

\* C7 as claimed: without sideways wheels the y of the published pose
\* stays what it was at construction
C7_YNeverChanges ==
    (Constructed /\ U = 0) => data.pose.y = rig.origin.y

\* C7 as amended: without sideways wheels local_y is 0 in every iteration,
\* and the iteration moves the y of the pose by the forward displacement
\* projected on the global y axis, local_x * sin(avg_heading), which is 0
\* only if local_x or the sine is
C7_YFollowsForwardProjection ==
    [][(PublishStep /\ U = 0) =>
          /\ last'.local_y = 0
          /\ data'.pose.y = data.pose.y
                              + FDiv(last'.local_x * Sin(last'.avg_heading), Scale)
          /\ (last'.local_x = 0 \/ Sin(last'.avg_heading) = 0) =>
                data'.pose.y = data.pose.y]_vars

\* C7 witness: a rig without sideways wheels whose pose has left the y of
\* its origin
C7_Witness ==
    /\ Constructed /\ U = 0 /\ last.outcome = "published"
    /\ last.local_y = 0 /\ last.local_x # 0
    /\ data.pose.y # rig.origin.y

\* C8: the angular velocity an iteration publishes is the gyro rate when
\* the inertial sensor is trusted and its gyro read succeeds, and
\* delta_heading / dt otherwise (stated where dt > 0)
C8_AngularVelocity ==
    (pc = "sleeping" /\ last.outcome = "published" /\ last.dt > 0) =>
        data.angular_velocity =
            IF imu /\ sensor.gyroOk
            THEN FromDegrees(sensor.gyro)
            ELSE FDiv(last.delta_heading * 1000, last.dt)

\* C9: an iteration publishes as forward_travel the mean of the forward
\* distances it read; its linear_velocity is 0 when dt is not positive and
\* otherwise, when an earlier iteration has published, the difference to the
\* mean of the forward distances of that iteration, divided by dt
C9_LinearVelocity ==
    [][PublishStep =>
          LET dt       == now - prev_time
              mean_now == Mean(ReadAll(forward, encF))
          IN  /\ data'.forward_travel = mean_now
              /\ dt <= 0 => data'.linear_velocity = 0
              /\ (dt > 0 /\ data.stamp.pose > 0) =>
                    data'.linear_velocity =
                        FDiv((mean_now - Mean(prev_forward)) * 1000, dt)]_vars

\* C9 witness: the second of two publishing iterations, with time elapsed
\* and the robot moving
C9_Witness ==
    /\ ticks = 2 /\ data.stamp.pose = 2 /\ last.outcome = "published"
    /\ last.dt > 0 /\ data.linear_velocity # 0

\* the difference of the raw headings of the last iteration
LastRawDifference == last.raw_heading - last.prev_raw_heading

\* C10 as claimed: delta_heading is the representative of the difference of
\* the raw headings modulo a full turn in the half-open interval (-pi, pi]
C10_HalfOpenWrap ==
    last.outcome = "published" =>
        /\ (LastRawDifference - last.delta_heading) % TAU = 0
        /\ -PI < last.delta_heading /\ last.delta_heading <= PI

\* C10 as amended: delta_heading is the IEEE remainder of the difference by
\* a full turn: congruent to it, in the closed interval [-pi, pi], the
\* difference itself when that is within half a turn (so a difference of
\* exactly -pi stays -pi); raw headings of 350 then 10 degrees give +20
C10_ShortestArc ==
    last.outcome = "published" =>
        /\ (LastRawDifference - last.delta_heading) % TAU = 0
        /\ -PI <= last.delta_heading /\ last.delta_heading <= PI
        /\ Abs(LastRawDifference) <= PI => last.delta_heading = LastRawDifference
        /\ AsDegrees(DeltaHeading(FromDegrees(10), FromDegrees(350))) = 20

\* C10 witness: the inertial heading went from 10 to 350 degrees, the raw
\* heading from -10 to -350: a difference of -340 degrees, wrapped to +20
C10_Witness ==
    /\ last.outcome = "published"
    /\ last.prev_raw_heading = FromDegrees(-10)
    /\ last.raw_heading = FromDegrees(-350)
    /\ AsDegrees(last.delta_heading) = 20

\* C11: with no trusted inertial source, the pose an iteration has published
\* has the heading (right_travel - left_travel) / track_width + heading_offset:
\* left and right are the wheels of the detected pair (left the one with the
\* smaller offset), track_width the absolute difference of their offsets,
\* heading_offset the heading of the origin pose; the sum is stored as it
\* is, not wrapped into one turn.
C11_WheelPairHeading ==
    (pc = "sleeping" /\ last.outcome = "published" /\ ~imu) =>
        /\ parallel_indices.some
        /\ LET left         == parallel_indices.val[1]
               right        == parallel_indices.val[2]
               track_width  == Abs(Offset(forward[right]) - Offset(forward[left]))
               left_travel  == Distance(forward[left], encF[left])
               right_travel == Distance(forward[right], encF[right])
           IN  /\ Offset(forward[left]) <= Offset(forward[right])
               /\ Abs(Offset(forward[left]) + Offset(forward[right])) <= OFFSET_TOLERANCE
               /\ data.heading_offset = rig.origin.heading
               /\ data.pose.heading =
                      FDiv((right_travel - left_travel) * Scale, track_width)
                        + rig.origin.heading

\* C11 witness: a rig without inertial sensor whose origin heads at pi has
\* pivoted; the published heading lies beyond pi
C11_Witness ==
    /\ pc = "sleeping" /\ last.outcome = "published" /\ ~imu /\ ~rig.hasImu
    /\ rig.origin.heading = PI
    /\ Distance(forward[2], encF[2]) - Distance(forward[1], encF[1]) > 0
    /\ data.pose.heading > PI

\* the travel of forward wheel i (sideways wheel i) since the last iteration
\* that published, as the iteration about to run will compute it
ForwardDelta(i) == Distance(forward[i], encF[i]) - prev_forward[i]

SidewaysDelta(i) == Distance(sideways[i], encS[i]) - prev_sideways[i]

\* an iteration that publishes with the heading held (delta_heading = 0)
\* while the two forward wheels have advanced by the same distance
StraightStep ==
    /\ PublishStep
    /\ N = 2
    /\ last'.delta_heading = 0
    /\ ForwardDelta(1) > 0
    /\ ForwardDelta(2) = ForwardDelta(1)

\* C12 as claimed: when the heading is held and both forward wheels advance
\* by D in an iteration, the x of the published pose grows by exactly D and
\* the heading of the pose stays what it was
C12_XGrowsByTravel ==
    [][StraightStep =>
          /\ data'.pose.x = data.pose.x + ForwardDelta(1)
          /\ data'.pose.heading = data.pose.heading]_vars

\* C12 as amended: when the heading is held, both forward wheels advance by
\* D and the sideways wheels stay, the pose advances by D along its heading
\* h = raw_heading + heading_offset: x by D cos(h), y by D sin(h), so x by
\* exactly D when h is 0; h is the heading the previous iteration published
C12_AdvancesAlongHeading ==
    [][(StraightStep /\ \A i \in 1..U : SidewaysDelta(i) = 0) =>
          LET D == ForwardDelta(1)
              h == data'.pose.heading
          IN  /\ h = last'.raw_heading + data.heading_offset
              /\ last'.local_x = D
              /\ data'.pose.x = data.pose.x + FDiv(D * Cos(h), Scale)
              /\ data'.pose.y = data.pose.y + FDiv(D * Sin(h), Scale)
              /\ h = 0 => data'.pose.x = data.pose.x + D
              /\ data.stamp.pose > 0 => h = data.pose.heading]_vars

\* C12 witness: the first iteration of a rig heading along x, after both
\* forward wheels advanced by the same distance: x has grown by it
C12_Witness ==
    /\ ticks = 1 /\ last.outcome = "published" /\ last.delta_heading = 0
    /\ N = 2
    /\ prev_forward[1] = Distance(forward[1], rig.start) + last.local_x
    /\ prev_forward[2] = prev_forward[1]
    /\ last.local_x > 0
    /\ data.pose.heading = 0
    /\ data.pose.x = rig.origin.x + last.local_x
    /\ data.pose.y = rig.origin.y

\* an iteration that publishes after the forward wheels at the offsets
\* -0.2 m and +0.2 m travelled -d and +d
PivotStep ==
    /\ PublishStep
    /\ N = 2
    /\ Offset(forward[1]) = -200
    /\ Offset(forward[2]) = 200
    /\ ForwardDelta(1) = -ForwardDelta(2)

\* C13 as claimed: in an iteration where the forward wheels at -0.2 m and
\* +0.2 m travelled -d and +d, local_x is 0 and the position of the pose
\* does not change
C13_PivotKeepsPosition ==
    [][PivotStep =>
          /\ last'.local_x = 0
          /\ data'.pose.x = data.pose.x
          /\ data'.pose.y = data.pose.y]_vars

\* C13 as amended: in such an iteration local_x is 0; the position moves
\* by the lateral displacement local_y of the sideways wheels alone, and
\* does not change when local_y is 0 (as without sideways wheels)
C13_PivotHasNoForwardDisplacement ==
    [][PivotStep =>
          /\ last'.local_x = 0
          /\ data'.pose.x = data.pose.x
                              - FDiv(last'.local_y * Sin(last'.avg_heading), Scale)
          /\ data'.pose.y = data.pose.y
                              + FDiv(last'.local_y * Cos(last'.avg_heading), Scale)
          /\ last'.local_y = 0 =>
                (data'.pose.x = data.pose.x /\ data'.pose.y = data.pose.y)]_vars

\* C13 witness: the first iteration after a pivot of a rig without sideways
\* wheels: the heading has turned, the position is the one of the origin
C13_Witness ==
    /\ ticks = 1 /\ last.outcome = "published" /\ rig.start = 0
    /\ N = 2 /\ Offset(forward[1]) = -200 /\ Offset(forward[2]) = 200
    /\ prev_forward[1] < 0 /\ prev_forward[2] = -prev_forward[1]
    /\ last.delta_heading # 0 /\ last.local_x = 0
    /\ data.pose.x = rig.origin.x /\ data.pose.y = rig.origin.y

\* the index pairs i < j of offsets that sum to within the tolerance of zero
Qualifying(offsets) ==
    {q \in (1..Len(offsets)) \X (1..Len(offsets)) :
        q[1] < q[2] /\ Abs(offsets[q[1]] + offsets[q[2]]) <= OFFSET_TOLERANCE}

\* C14: find_parallel_forward_indices returns None when there are fewer
\* than two forward wheels or no pair of offsets sums to within 0.5 m of
\* zero, and otherwise the first such pair in the lexicographic order of
\* (i, j), i < j, as (index of the smaller offset, index of the larger
\* one); the result is a function of the offsets alone.
C14_FirstQualifyingPair ==
    scan.called =>
        LET offsets == scan.offsets
            Q       == Qualifying(offsets)
        IN  IF Len(offsets) < 2 \/ Q = {}
            THEN ~scan.result.some
            ELSE /\ scan.result.some
                 /\ \E p \in Q :
                       /\ \A q \in Q : p[1] < q[1] \/ (p[1] = q[1] /\ p[2] <= q[2])
                       /\ {scan.result.val[1], scan.result.val[2]} = {p[1], p[2]}
                       /\ offsets[scan.result.val[1]] <= offsets[scan.result.val[2]]
                       /\ offsets[p[1]] < offsets[p[2]] => scan.result.val = p
                       /\ offsets[p[1]] > offsets[p[2]] =>
                             scan.result.val = <<p[2], p[1]>>

\* C14 witness: of the offsets 0.2, -0.1, -0.2 m the first pair within
\* tolerance is returned, smaller offset first, not the pair that sums to 0
C14_Witness ==
    /\ scan.called
    /\ scan.offsets = <<200, -100, -200>>
    /\ scan.result = [some |-> TRUE, val |-> <<2, 1>>]

\* the field an accessor call returns when it is the call number n + 1 of
\* the caller: pose(), then linear_velocity(), then angular_velocity()
FieldOfCall(n) ==
    IF n = 0 THEN "pose" ELSE IF n = 1 THEN "linear_velocity" ELSE "angular_velocity"

\* C15: the accessors never find the snapshot borrowed, because the task
\* holds no borrow while it is suspended; a call returns the field as it
\* stands in the snapshot and changes nothing but what the caller knows;
\* with no iteration since a pose() call, pose() returns the same value.
C15_AccessorsNeverConflict ==
    /\ [](data.borrow = "none" /\ ~rd.failed)
    /\ []((rd.n >= 1 /\ rd.tick = ticks) => Borrow(data, "pose") = rd.pose)
    /\ [][rd' # rd =>
             /\ UNCHANGED <<rig, pc, forward, sideways, encF, encS, encErr, sensor, now,
                            data, imu, parallel_indices, prev_forward, prev_sideways,
                            prev_raw_heading, prev_forward_travel, prev_time, ticks, last>>
             /\ rd'.n = rd.n + 1
             /\ rd'[FieldOfCall(rd.n)] = data[FieldOfCall(rd.n)]]_vars

\* C15 witness: pose() was called after the second iteration published and
\* returned the pose of that iteration, which is still the published one
C15_Witness ==
    /\ rd.n = 1 /\ rd.tick = 2 /\ ticks = 2 /\ ~rd.failed
    /\ data.stamp.pose = 2 /\ data.borrow = "none"
    /\ rd.pose = data.pose /\ rd.pose # rig.origin

\* C16: for the wheel of odom/wheel.rs, a distance() or delta() call that
\* follows a reset() with no movement in between returns zero, whether or
\* not the encoder accepted the reset
C16_ResetZeroes ==
    (tw.impl = "odom" /\ tw.fresh /\ tw.op \in {"distance", "delta"}) => tw.ret = 0

\* C17: for the wheel of omniwheel.rs, distance() after a reset() returns
\* the distance of the travel since that reset() (zero when the wheel has
\* not moved)
C17_DistanceFromResetPoint ==
    (tw.impl = "omni" /\ tw.op = "distance" /\ tw.resetAt.some) =>
        tw.ret = OmniwheelDistance(tw.wheel, tw.position - tw.resetAt.val)

\* C18: with any interleaving of delta(), distance() and movement (and no
\* reset()), delta() returns the distance travelled since the previous
\* delta() call, since construction for the first one; the results of all
\* delta() calls add up to the distance travelled since construction
C18_DeltaSincePreviousDelta ==
    (tw.impl \in WheelImpls /\ tw.op = "delta" /\ ~tw.resetAt.some) =>
        /\ tw.ret = DistanceOf(tw.wheel, tw.position) - DistanceOf(tw.wheel, tw.deltaFrom)
        /\ tw.deltaSum = DistanceOf(tw.wheel, tw.position) - DistanceOf(tw.wheel, tw.start)

\* C19: for the wheel of odom/wheel.rs, a gearing argument of None is a
\* gearing of 1, and distance() read after the encoder has made as many
\* full turns as the gearing says is one wheel circumference, pi times the
\* wheel diameter
C19_CircumferencePerWheelTurn ==
    tw.impl = "odom" =>
        /\ ~tw.ratio.some => tw.wheel.gearing = 1
        /\ (tw.op = "distance" /\ tw.position = tw.wheel.gearing * TicksPerTurn) =>
              tw.ret = FDiv(tw.wheel.size * PI, Scale)

\* C20 as claimed: once with_output_limits(min, max) was called, whatever
\* calculate returns lies in [min, max]: max when the value before the
\* clamp is above max, min when it is below min
C20_OutputWithinLimits ==
    (pid.made /\ pid.limited /\ pid.op = "calculate") =>
        /\ pid.min <= pid.out /\ pid.out <= pid.max
        /\ pid.raw > pid.max => pid.out = pid.max
        /\ pid.raw < pid.min => pid.out = pid.min

\* C20 as amended: this holds whenever the value before the clamp is a
\* number; when it is NaN (a NaN setpoint or measurement, or a NaN left in
\* the integral or the previous error by an earlier call) calculate
\* returns NaN
C20_NumbersWithinLimits ==
    (pid.made /\ pid.limited /\ pid.op = "calculate") =>
        /\ ~IsNaN(pid.raw) =>
              /\ pid.min <= pid.out /\ pid.out <= pid.max
              /\ pid.raw > pid.max => pid.out = pid.max
              /\ pid.raw < pid.min => pid.out = pid.min
              /\ (pid.min <= pid.raw /\ pid.raw <= pid.max) => pid.out = pid.raw
        /\ IsNaN(pid.raw) => IsNaN(pid.out)

\* C20 witness: gains (10, 0, 0) and limits (-5, 5); the second calculate
\* call, for an error of -1, has returned -5
C20_Witness ==
    /\ pid.made /\ pid.limited /\ pid.op = "calculate" /\ pid.calls = 2
    /\ pid.kp = 10000 /\ pid.min = -5000 /\ pid.max = 5000
    /\ pid.raw = -10000 /\ pid.out = -5000

\* C21: Pid::reset zeroes the integral term and the previous error and
\* leaves the gains and the limits as they are, and the calculate call that
\* follows a reset returns (and leaves behind) what the same call returns
\* on a controller newly built with the same gains and limits, for the same
\* setpoint, measurement and elapsed time.
C21_ResetGivesFreshController ==
    [][/\ pid'.op = "reset" =>
             /\ pid'.integral = 0 /\ pid'.previous_error = 0
             /\ <<pid'.kp, pid'.ki, pid'.kd>> = <<pid.kp, pid.ki, pid.kd>>
             /\ <<pid'.min, pid'.max, pid'.imin, pid'.imax>>
                   = <<pid.min, pid.max, pid.imin, pid.imax>>
       /\ (pid.op = "reset" /\ pid'.op = "calculate") =>
             \A setpoint \in Setpoints, actual \in Measurements, d \in PidSleepTimes :
                pid' = Calculate(pid, setpoint, actual, pid.elapsed + d) =>
                   LET fresh == Calculate(Rebuilt(pid), setpoint, actual, d)
                   IN  /\ pid'.out = fresh.out
                       /\ pid'.integral = fresh.integral
                       /\ pid'.previous_error = fresh.previous_error
                       /\ pid'.last_time = fresh.last_time]_vars

\* C21 witness: a controller with an integral gain has accumulated error,
\* was reset, and its next calculate call has returned the first step of
\* the integral again
C21_Witness ==
    /\ pid.made /\ pid.op = "calculate" /\ pid.before = "reset" /\ pid.calls = 2
    /\ pid.ki = 1000 /\ pid.kp = 0 /\ pid.kd = 0 /\ ~pid.limited
    /\ pid.previous_error = 1000 /\ pid.last_time = 10
    /\ pid.integral = 10 /\ pid.out = 10


\* ---------------------------------------------------------------------
\* Trajectory (motion/trajectory.rs): times in ms, velocities in the
\* fixed-point unit, the interpolation parameter in thousandths
\* ---------------------------------------------------------------------

\* f64 comparisons: every comparison with a NaN is false
FLe(a, b) == ~IsNaN(a) /\ ~IsNaN(b) /\ a <= b

FGe(a, b) == ~IsNaN(a) /\ ~IsNaN(b) /\ a >= b

FLt(a, b) == ~IsNaN(a) /\ ~IsNaN(b) /\ a < b

TrajectoryPoint(pose, linear_velocity, angular_velocity, time) ==
    [pose |-> pose, linear_velocity |-> linear_velocity,
     angular_velocity |-> angular_velocity, time |-> time]

\* interpolation from b back to a
lerp_Reversed(a, b, t) == b + FDiv((a - b) * t, Scale)

\* a + (b - a) * t
lerp(a, b, t) == a + FDiv((b - a) * t, Scale)

\* a + (b - a).remainder(TAU) * t
lerp_angle(a, b, t) == a + FDiv(Remainder(b - a, TAU) * t, Scale)

interpolate_pose(a, b, t) ==
    Pose(lerp(a.x, b.x, t), lerp(a.y, b.y, t), lerp_angle(a.heading, b.heading, t))

\* the body of the loop over points.windows(2), for the window at index i
SampleWindow(a, b, time) ==
    LET span == b.time - a.time
        t == IF span <= 0 THEN 0 ELSE FDiv((time - a.time) * Scale, span)
    IN  TrajectoryPoint(interpolate_pose(a.pose, b.pose, t),
                        lerp(a.linear_velocity, b.linear_velocity, t),
                        lerp(a.angular_velocity, b.angular_velocity, t),
                        time)

\* the loop over points.windows(2) from window i on, and the fall-through
RECURSIVE SampleWindows(_, _, _)
SampleWindows(points, time, i) ==
    IF i >= Len(points) THEN Some(points[Len(points)])
    ELSE IF FGe(time, points[i].time) /\ FLe(time, points[i + 1].time)
         THEN Some(SampleWindow(points[i], points[i + 1], time))
         ELSE SampleWindows(points, time, i + 1)

\* Trajectory::sample
sample(points, time) ==
    IF Len(points) = 0 THEN None
    ELSE IF FLe(time, points[1].time) THEN Some(points[1])
    ELSE IF FGe(time, points[Len(points)].time) THEN Some(points[Len(points)])
    ELSE SampleWindows(points, time, 1)

\* number of points that are pushed
MaxPoints == 3

\* the points that are pushed: two that share a time, one with a NaN time
TrajPoints ==
    { TrajectoryPoint(Pose(0, 0, FromDegrees(350)), 0, 0, 0),
      TrajectoryPoint(Pose(1000, -500, FromDegrees(10)), 1000, 500, 1000),
      TrajectoryPoint(Pose(2000, 500, FromDegrees(10)), 500, 0, 1000),
      TrajectoryPoint(Pose(3000, 0, 0), 500, -500, 2000),
      TrajectoryPoint(Pose(500, 500, 0), 0, 0, NaN) }

\* the times that are sampled
SampleTimes == {-1000, 0, 500, 1000, 1500, 2000, 3000, NaN}

\* Trajectory::new
InitTraj ==
    /\ NoRig
    /\ scan = NoScan
    /\ tw = NoWheel
    /\ pid = NoPid
    /\ lg = NoLogger
    /\ sh = NoShoot
    /\ traj = NoTraj

\* Trajectory::push
Push(point) ==
    /\ Len(traj.points) < MaxPoints
    /\ traj' = [points |-> Append(traj.points, point), sampled |-> FALSE]
    /\ UNCHANGED rigVars
    /\ UNCHANGED <<scan, tw, pid, lg, sh>>

\* a call of Trajectory::sample
Sample(time) ==
    /\ traj' = [points |-> traj.points, sampled |-> TRUE, time |-> time,
                result |-> sample(traj.points, time)]
    /\ UNCHANGED rigVars
    /\ UNCHANGED <<scan, tw, pid, lg, sh>>

NextTraj ==
    \/ \E point \in TrajPoints : Push(point)
    \/ \E time \in SampleTimes : Sample(time)

SpecTraj == InitTraj /\ [][NextTraj]_vars

\* the sampled time lies strictly between the first and the last point's time
StrictlyInside ==
    /\ Len(traj.points) > 0
    /\ FLt(traj.points[1].time, traj.time)
    /\ FLt(traj.time, traj.points[Len(traj.points)].time)

\* value v lies on the line from a to b at the sampled time, up to the
\* rounding of one unit
OnLine(v, a, b, ta, tb) ==
    Abs((v - a) * (tb - ta) - (b - a) * (traj.time - ta)) <= tb - ta

\* the result is the interpolation on the segment from point i to point i + 1,
\* whose end times bracket the sampled time
InterpolatedOn(i) ==
    LET a == traj.points[i]
        b == traj.points[i + 1]
        r == traj.result.val
    IN  /\ FLe(a.time, traj.time) /\ FLe(traj.time, b.time)
        /\ OnLine(r.pose.x, a.pose.x, b.pose.x, a.time, b.time)
        /\ OnLine(r.pose.y, a.pose.y, b.pose.y, a.time, b.time)
        /\ OnLine(r.pose.heading, a.pose.heading,
                  a.pose.heading + Remainder(b.pose.heading - a.pose.heading, TAU),
                  a.time, b.time)
        /\ OnLine(r.linear_velocity, a.linear_velocity, b.linear_velocity,
                  a.time, b.time)
        /\ OnLine(r.angular_velocity, a.angular_velocity, b.angular_velocity,
                  a.time, b.time)

\* the result has the sampled time and is interpolated on a bracketing segment
InsideResult ==
    /\ traj.result.some
    /\ traj.result.val.time = traj.time
    /\ \E i \in 1..(Len(traj.points) - 1) : InterpolatedOn(i)

\* C22 as stated: None for an empty trajectory; the first point when the
\* time is at or before the first point's time and the last point when it
\* is at or after the last point's time; for a time strictly inside, a
\* point with the sampled time that is interpolated on a bracketing segment.
C22_SampleEndpointsAndInterpolation ==
    traj.sampled =>
       LET n == Len(traj.points)
       IN  /\ n = 0 => traj.result = None
           /\ (n > 0 /\ FLe(traj.time, traj.points[1].time))
                 => traj.result = Some(traj.points[1])
           /\ (n > 0 /\ FGe(traj.time, traj.points[n].time))
                 => traj.result = Some(traj.points[n])
           /\ StrictlyInside => InsideResult

\* C22, amended: the first point has priority when the time is both at or
\* before the first point's time and at or after the last point's time,
\* and the interpolation is promised when no point's time is NaN.
C22_FirstPointHasPriority ==
    traj.sampled =>
       LET n == Len(traj.points)
       IN  /\ n = 0 => traj.result = None
           /\ (n > 0 /\ FLe(traj.time, traj.points[1].time))
                 => traj.result = Some(traj.points[1])
           /\ (n > 0 /\ ~FLe(traj.time, traj.points[1].time)
                     /\ FGe(traj.time, traj.points[n].time))
                 => traj.result = Some(traj.points[n])
           /\ (StrictlyInside /\ \A i \in 1..n : ~IsNaN(traj.points[i].time))
                 => InsideResult

\* C22 witness: a quarter of the way from the point at 0 ms to the point
\* at 2000 ms, across the heading wrap
C22_Witness ==
    /\ traj.sampled /\ Len(traj.points) = 2 /\ traj.time = 500
    /\ traj.points[1].time = 0 /\ traj.points[2].time = 2000
    /\ traj.result.some
    /\ traj.result.val.time = 500
    /\ traj.result.val.pose.x = 750
    /\ traj.result.val.linear_velocity = 125
    /\ traj.result.val.pose.heading > traj.points[1].pose.heading


\* ---------------------------------------------------------------------
\* Logger (util/logger.rs): Logger values that share one mpsc channel, the
\* logger thread that receives from it, and the LoggerHandle
\* ---------------------------------------------------------------------

\* enum Level, in its derived order
Levels == <<"Trace", "Debug", "Info", "Warn", "Error">>

Rank(level) == CHOOSE i \in 1..Len(Levels) : Levels[i] = level

\* the Logger values in use: the one init() returns and a clone of it
\* with .level(Level::Warn)
Loggers == {[id |-> 1, level |-> "Trace"], [id |-> 2, level |-> "Warn"]}

\* the levels that are logged
LoggedLevels == {"Debug", "Error"}

\* number of log and flush calls that are explored
MaxLogs == 3

\* a Logger::log without the early return
Passes_All(logger, level) == TRUE

\* the negation of `level < self.level`
Passes(logger, level) == Rank(level) >= Rank(logger.level)

\* a channel that hands over the newest command first
Send_Front(l, cmd) ==
    IF l.thread = "running" THEN [l EXCEPT !.queue = <<cmd>> \o l.queue] ELSE l

\* `let _ = self.tx.send(cmd)`: the command joins the channel while the
\* receiver lives; once the receiver is gone send returns Err, which is ignored
Send(l, cmd) ==
    IF l.thread = "running" THEN [l EXCEPT !.queue = Append(l.queue, cmd)] ELSE l

\* the state that init() returns: the thread is spawned, nothing is sent
InitLogger ==
    /\ NoRig
    /\ scan = NoScan
    /\ tw = NoWheel
    /\ pid = NoPid
    /\ traj = NoTraj
    /\ sh = NoShoot
    /\ lg = [thread |-> "running", queue |-> <<>>, written |-> <<>>,
             flushed |-> 0, handle |-> TRUE, sd |-> "idle",
             shutdowns |-> 0, returned |-> 0, calls |-> 0, rejected |-> 0,
             owed |-> {}, sent |-> {}]

\* Logger::log(level, message); the message is numbered by the call
Log(logger, level) ==
    /\ lg.thread # "none"
    /\ lg.calls < MaxLogs
    /\ LET k == lg.calls + 1
           counted == [lg EXCEPT !.calls = k]
       IN  lg' = IF ~Passes(logger, level)
                 THEN [counted EXCEPT !.rejected = @ + 1]
                 ELSE Send([counted EXCEPT !.sent = @ \cup {k}],
                           [cmd |-> "Message", id |-> logger.id,
                            level |-> level, k |-> k])
    /\ UNCHANGED rigVars
    /\ UNCHANGED <<scan, tw, pid, traj, sh>>

\* Logger::flush
Flush ==
    /\ lg.thread # "none"
    /\ lg.calls < MaxLogs
    /\ lg' = Send([lg EXCEPT !.calls = @ + 1], [cmd |-> "Flush"])
    /\ UNCHANGED rigVars
    /\ UNCHANGED <<scan, tw, pid, traj, sh>>

\* one turn of `for cmd in rx`; after Shutdown the loop breaks, the thread
\* ends and the receiver is dropped with what is left in the channel
ThreadStep ==
    /\ lg.thread = "running"
    /\ lg.queue # <<>>
    /\ LET cmd == Head(lg.queue)
           rest == [lg EXCEPT !.queue = Tail(@)]
       IN  lg' = CASE cmd.cmd = "Message" ->
                        [rest EXCEPT !.written = Append(@, cmd)]
                   [] cmd.cmd = "Flush" ->
                        [rest EXCEPT !.flushed = Len(lg.written)]
                   [] cmd.cmd = "Shutdown" ->
                        [rest EXCEPT !.flushed = Len(lg.written),
                                     !.thread = "ended", !.queue = <<>>]
    /\ UNCHANGED rigVars
    /\ UNCHANGED <<scan, tw, pid, traj, sh>>

\* LoggerHandle::shutdown up to the join (explicitly, then from Drop): the
\* send, and handle.take(); with no handle left the call returns at once
ShutdownCall ==
    /\ lg.thread # "none"
    /\ lg.sd = "idle"
    /\ lg.shutdowns < 2
    /\ LET sent == Send([lg EXCEPT !.shutdowns = @ + 1], [cmd |-> "Shutdown"])
       IN  lg' = IF lg.handle
                 THEN [sent EXCEPT !.handle = FALSE, !.sd = "joining",
                                   !.owed = lg.sent]
                 ELSE [sent EXCEPT !.returned = @ + 1]
    /\ UNCHANGED rigVars
    /\ UNCHANGED <<scan, tw, pid, traj, sh>>

\* h.join() returns: the thread has ended
ShutdownReturn ==
    /\ lg.sd = "joining"
    /\ lg.thread = "ended"
    /\ lg' = [lg EXCEPT !.sd = "idle", !.returned = @ + 1]
    /\ UNCHANGED rigVars
    /\ UNCHANGED <<scan, tw, pid, traj, sh>>

NextLog ==
    \/ \E logger \in Loggers, level \in LoggedLevels : Log(logger, level)
    \/ Flush
    \/ ThreadStep
    \/ ShutdownCall
    \/ ShutdownReturn

SpecLog == InitLogger /\ [][NextLog]_vars

\* the Logger value with the given id
LoggerOf(id) == CHOOSE logger \in Loggers : logger.id = id

\* the messages in a sequence of commands
MessagesIn(q) == SelectSeq(q, LAMBDA c : c.cmd = "Message")

\* the call numbers of one caller's messages, in the order of the sequence
CallsOf(q, id) ==
    LET mine == SelectSeq(MessagesIn(q), LAMBDA c : c.id = id)
    IN  [i \in 1..Len(mine) |-> mine[i].k]

\* a sequence of numbers is strictly increasing
Increasing(q) == \A i, j \in 1..Len(q) : i < j => q[i] < q[j]

\* the call numbers of the messages that were written
WrittenCalls == {lg.written[i].k : i \in 1..Len(lg.written)}

\* C23: a message below its logger's threshold is never in the channel and
\* never written, and one caller's messages are written (and wait in the
\* channel) in the order of their log calls.
C23_FilteredAndInOrder ==
    lg.thread # "none" =>
       /\ \A i \in 1..Len(lg.written) :
             Rank(lg.written[i].level) >= Rank(LoggerOf(lg.written[i].id).level)
       /\ \A i \in 1..Len(lg.queue) :
             lg.queue[i].cmd = "Message" =>
                Rank(lg.queue[i].level) >= Rank(LoggerOf(lg.queue[i].id).level)
       /\ WrittenCalls \subseteq lg.sent
       /\ \A logger \in Loggers :
             Increasing(CallsOf(lg.written \o lg.queue, logger.id))

\* C23 witness: the clone with threshold Warn logged Debug, which was
\* dropped, between two messages that were written in their order
C23_Witness ==
    /\ lg.thread = "running" /\ lg.calls = 3 /\ lg.rejected = 1
    /\ Len(lg.written) = 2
    /\ lg.written[1].k = 1 /\ lg.written[2].k = 3
    /\ lg.written[1].id = 2 /\ lg.written[2].id = 2

\* C24: when the thread has stopped, every message logged before shutdown
\* was called is written and the output is flushed; shutdown returns only
\* when the thread has ended; a log or flush call after shutdown changes
\* nothing but the count of calls; a second shutdown changes nothing and
\* returns at once.
C24_ShutdownDrainsAndStops ==
    /\ [](lg.thread = "ended" =>
             /\ lg.owed \subseteq WrittenCalls
             /\ lg.flushed = Len(lg.written))
    /\ [][/\ (lg.thread # "none" /\ lg'.returned # lg.returned)
                => lg'.thread = "ended"
          /\ (lg.thread # "none" /\ lg.returned >= 1 /\ lg'.calls # lg.calls)
                => lg' = [lg EXCEPT !.calls = lg'.calls, !.sent = lg'.sent,
                                    !.rejected = lg'.rejected]
          /\ (lg.thread # "none" /\ lg.returned >= 1
                 /\ lg'.shutdowns # lg.shutdowns)
                => lg' = [lg EXCEPT !.shutdowns = 2, !.returned = 2]]_vars

\* C24 witness: two messages are logged, shutdown is called and returns
\* with both written, a later message is dropped, and the second shutdown
\* has returned
C24_Witness ==
    /\ lg.thread = "ended" /\ lg.returned = 2 /\ lg.shutdowns = 2
    /\ lg.owed = {1, 2} /\ Len(lg.written) = 2 /\ lg.flushed = 2
    /\ lg.sent = {1, 2, 3} /\ lg.queue = <<>>


\* ---------------------------------------------------------------------
\* OdomChassis::shoot (odom/chassis.rs): velocities and voltages as f64 in
\* hundredths, readings as i32 in rpm within the range of a motor
\* ---------------------------------------------------------------------

\* the f64 unit of shoot: a hundredth of an rpm or of a volt
ShootScale == 10 ^ 2

\* let stable_threshold = 10
stable_threshold == 10

\* the 10.0 that error.abs() is compared with
ShootTolerance == 10 * ShootScale

\* number of loop iterations that are explored
MaxReads == 12

\* target_rpm
ShootTargets == {100, 5}

\* results of motor.velocity(): on the target, on the edge of the tolerance,
\* outside of it, and a failed read
Readings(target_rpm) ==
    { [ok |-> TRUE, rpm |-> target_rpm], [ok |-> TRUE, rpm |-> target_rpm + 10],
      [ok |-> TRUE, rpm |-> target_rpm - 11], [ok |-> FALSE, rpm |-> 0] }

\* Pid::new().set_gains(0.1, 0.001, 0.05).with_output_limits(-12.0, 12.0)
ShootPid ==
    [PidNew EXCEPT !.kp = 100, !.ki = 1, !.kd = 50,
                   !.min = -12 * ShootScale, !.max = 12 * ShootScale]

\* Result::unwrap_or
UnwrapOr(reading, default) == IF reading.ok THEN reading.rpm ELSE default

\* a stable count that a reading outside the tolerance leaves as it is
StableCount_NoReset(stable_count, error) ==
    IF Abs(error) <= ShootTolerance THEN stable_count + 1 ELSE stable_count

\* the stable count after the comparison of error.abs() with 10.0
StableCount(stable_count, error) ==
    IF Abs(error) <= ShootTolerance THEN stable_count + 1 ELSE 0

\* shoot up to its loop
InitShoot ==
    /\ NoRig
    /\ scan = NoScan
    /\ tw = NoWheel
    /\ pid = NoPid
    /\ traj = NoTraj
    /\ lg = NoLogger
    /\ \E target_rpm \in ShootTargets :
          sh = [pc |-> "loop", target_rpm |-> target_rpm, stable_count |-> 0,
                pid |-> ShootPid, reads |-> 0,
                reading |-> [ok |-> TRUE, rpm |-> 0], current_rpm |-> 0,
                set |-> "none", streak |-> 0, resets |-> 0]

\* one iteration of the loop of shoot, with the result of motor.velocity()
\* and of motor.set_voltage(); streak counts, from the readings alone, the
\* readings in a row that are within 10 rpm of the target
ShootLoop(reading, set_ok) ==
    /\ sh.pc = "loop"
    /\ sh.reads < MaxReads
    /\ LET current_rpm  == UnwrapOr(reading, 0)
           error        == (sh.target_rpm - current_rpm) * ShootScale
           stable_count == StableCount(sh.stable_count, error)
           within       == Abs(sh.target_rpm - (IF reading.ok THEN reading.rpm ELSE 0)) <= 10
           read         == [sh EXCEPT !.reads = @ + 1, !.reading = reading,
                                      !.current_rpm = current_rpm,
                                      !.stable_count = stable_count,
                                      !.streak = IF within THEN @ + 1 ELSE 0,
                                      !.resets = IF within THEN @ ELSE @ + 1,
                                      !.set = "none"]
           calculated   == Calculate(sh.pid, sh.target_rpm * ShootScale,
                                     current_rpm * ShootScale, sh.pid.elapsed)
       IN  sh' = IF Abs(error) <= ShootTolerance /\ stable_count >= stable_threshold
                 THEN [read EXCEPT !.pc = "ok"]
                 ELSE IF ~set_ok
                 THEN [read EXCEPT !.pid = calculated, !.set = "err", !.pc = "err"]
                 ELSE [read EXCEPT !.pid = [calculated EXCEPT !.elapsed = @ + 10],
                                   !.set = "ok"]
    /\ UNCHANGED rigVars
    /\ UNCHANGED <<scan, tw, pid, traj, lg>>

NextShoot ==
    \E target_rpm \in ShootTargets, set_ok \in BOOLEAN :
       \E reading \in Readings(target_rpm) :
          sh.target_rpm = target_rpm /\ ShootLoop(reading, set_ok)

SpecShoot == InitShoot /\ [][NextShoot]_vars

\* C25: shoot has returned Ok only when the last 10 readings were all
\* within 10 rpm of the target; a reading outside the tolerance sets the
\* stable count to 0; a failed read is used as 0 rpm; shoot ends with
\* ShootError::Motor in the iteration in which set_voltage fails, and only
\* then.
C25_OkAfterTenStableReadings ==
    /\ [](sh.pc = "ok" => sh.streak >= 10)
    /\ [][(sh.pc = "loop" /\ sh'.pc # "none" /\ sh'.reads # sh.reads) =>
             /\ Abs(sh.target_rpm - sh'.current_rpm) > 10 => sh'.stable_count = 0
             /\ ~sh'.reading.ok => sh'.current_rpm = 0
             /\ sh'.reading.ok => sh'.current_rpm = sh'.reading.rpm
             /\ sh'.set = "err" <=> sh'.pc = "err"
             /\ sh'.pc = "ok" => sh'.set = "none"]_vars

\* C25 witness: a reading outside the tolerance after one inside it, then
\* ten readings inside it, one of them on the edge, and Ok
C25_Witness ==
    /\ sh.pc = "ok" /\ sh.target_rpm = 100 /\ sh.reads = 12
    /\ sh.resets = 1 /\ sh.stable_count = 10
    /\ sh.reading = [ok |-> TRUE, rpm |-> 110]


\* no encoder has turned since TrackingRig::new
EncodersAtStart ==
    /\ \A i \in 1..N : encF[i] = rig.start
    /\ \A i \in 1..U : encS[i] = rig.start

C27_FirstPoseIsOrigin ==
    [][(PublishStep /\ ticks = 0 /\ EncodersAtStart
           /\ last'.raw_heading = last'.prev_raw_heading)
          => data'.pose = rig.origin]_vars

\* C28: after construction the snapshot's forward_travel and the previous
\* forward travel are the mean of the forward-wheel distances read at
\* construction, and a first iteration in which no encoder has turned and
\* time has passed publishes linear_velocity 0.
C28_InitialForwardTravelIsMean ==
    /\ []((Constructed /\ ticks = 0) =>
             /\ data.forward_travel = FDiv(SumSeq(prev_forward), N)
             /\ prev_forward_travel = FDiv(SumSeq(prev_forward), N))
    /\ [][(PublishStep /\ ticks = 0 /\ EncodersAtStart /\ last'.dt > 0)
             => data'.linear_velocity = 0]_vars

====
